---- MODULE Spec2Model ----
(***************************************************************************)
(* Veritas Foresight: the narrative resonance engine (foresight_engine.py) *)
(* and the two endpoints of foresight_app.py that drive it.                *)
(*                                                                         *)
(* Probabilities are exact rationals [num, den] in lowest terms, texts are *)
(* strings compared character by character, Future objects live in a heap *)
(* so that copying and aliasing are visible, and every random draw of the  *)
(* code is a nondeterministic choice.                                      *)
(***************************************************************************)
EXTENDS Integers, Sequences, FiniteSets, TLC

VARIABLES
    heap,       \* object id -> Future object (name, keywords, core_logic, probability, description)
    source,     \* the ids of the list the constructor was given (or of DEFAULT_FUTURES)
    futures,    \* self.futures: the ids of the engine's own Future objects
    history,    \* self.history: sequence of ResonanceSnapshot
    iteration,  \* self.iteration
    pc,         \* "idle", or the frame of a run() call in progress
    ret,        \* outcome of the last call: what it returned or raised
    topics,     \* the field context of this engine's caller, passed to every call
    applied,    \* number of direct apply_argument calls since construction / reset
    last_produced,  \* the iteration index of the snapshot this engine produced
                    \* last, over its whole lifetime (0: none yet)
    rng,        \* the state of the generator of the module `random`, which every
                \* engine of the process draws from
    seed        \* the seed this engine was constructed with (None: unseeded)

vars == <<heap, source, futures, history, iteration, pc, ret, topics, applied,
          last_produced, rng, seed>>

(***************************************************************************)
(* Bounds of the exploration.                                              *)
(***************************************************************************)
\* step() is explored while self.iteration is below MaxIter.
MaxIter == 2
\* run() is called with steps in 1..MaxSteps.
MaxSteps == 2
\* direct apply_argument calls between two resets.
MaxApply == 1
\* a probability is updated only while every denominator is at most MaxDen
\* (keeps the exact arithmetic inside TLC's 32-bit integers).
MaxDen == 9

(***************************************************************************)
(* Exact rational arithmetic for Python's float operators.                 *)
(***************************************************************************)
Abs(n) == IF n < 0 THEN -n ELSE n

RECURSIVE GCD(_, _)
GCD(a, b) == IF b = 0 THEN a ELSE GCD(b, a % b)

\* n/d in lowest terms with a positive denominator (d # 0).
Frac(n, d) ==
    LET g == GCD(Abs(n), Abs(d))
        s == IF d < 0 THEN -1 ELSE 1
    IN  [num |-> s * (n \div g), den |-> s * (d \div g)]

Zero == [num |-> 0, den |-> 1]
One == [num |-> 1, den |-> 1]

\* a * b, cross-reduced before multiplying.
RMul(a, b) ==
    LET g1 == GCD(Abs(a.num), b.den)
        g2 == GCD(Abs(b.num), a.den)
    IN  [num |-> (a.num \div g1) * (b.num \div g2),
         den |-> (a.den \div g2) * (b.den \div g1)]

\* a + b over the least common denominator.
RAdd(a, b) ==
    LET g == GCD(a.den, b.den)
    IN  Frac(a.num * (b.den \div g) + b.num * (a.den \div g), (a.den \div g) * b.den)

RNeg(a) == [num |-> -a.num, den |-> a.den]
RSub(a, b) == RAdd(a, RNeg(b))

\* a / b for b # 0.
RDiv(a, b) ==
    RMul(a, IF b.num < 0 THEN [num |-> -b.den, den |-> -b.num]
                         ELSE [num |-> b.den, den |-> b.num])

RLess(a, b) == RSub(a, b).num < 0
RLeq(a, b) == RSub(a, b).num <= 0
RMin(a, b) == IF RLess(b, a) THEN b ELSE a

RECURSIVE RSum(_)
RSum(s) == IF s = <<>> THEN Zero ELSE RAdd(Head(s), RSum(Tail(s)))

\* round(p, 4): the nearest multiple of 1/10000, a tie going to the even one.
\* Long division, one decimal digit at a time.
RECURSIVE Pow10(_)
Pow10(k) == IF k = 0 THEN 1 ELSE 10 * Pow10(k - 1)

RECURSIVE Digits(_, _, _)
Digits(r, d, k) ==
    IF k = 0 THEN <<0, r>>
    ELSE LET rest == Digits((10 * r) % d, d, k - 1)
         IN  <<((10 * r) \div d) * Pow10(k - 1) + rest[1], rest[2]>>

round(p, places) ==
    LET a == Abs(p.num)
        whole == a \div p.den
        dg == Digits(a % p.den, p.den, places)
        q == whole * Pow10(places) + dg[1]
        r == dg[2]
        up == \/ 2 * r > p.den
              \/ (2 * r = p.den /\ q % 2 = 1)
        m == IF up THEN q + 1 ELSE q
    IN  Frac(IF p.num < 0 THEN -m ELSE m, Pow10(places))

(***************************************************************************)
(* Python str operations, character by character.                          *)
(***************************************************************************)
UpperChars == "ABCDEFGHIJKLMNOPQRSTUVWXYZ"
LowerChars == "abcdefghijklmnopqrstuvwxyz"

CharAt(s, i) == SubSeq(s, i, i)

LowerChar(c) ==
    IF \E i \in 1..Len(UpperChars) : CharAt(UpperChars, i) = c
    THEN CharAt(LowerChars, CHOOSE i \in 1..Len(UpperChars) : CharAt(UpperChars, i) = c)
    ELSE c

\* s.lower(), halving the string so that the recursion stays shallow
RECURSIVE lower(_)
lower(s) ==
    IF Len(s) = 0 THEN ""
    ELSE IF Len(s) = 1 THEN LowerChar(s)
    ELSE LET h == Len(s) \div 2
         IN  lower(SubSeq(s, 1, h)) \o lower(SubSeq(s, h + 1, Len(s)))

\* t in s (substring test; the empty string is in every string)
Contains(s, t) ==
    \E i \in 1..(Len(s) - Len(t) + 1) : SubSeq(s, i, i + Len(t) - 1) = t

\* s.split(): the maximal runs of non-blank characters, in order
split(s) ==
    LET starts == {i \in 1..Len(s) :
                      CharAt(s, i) # " " /\ (i = 1 \/ CharAt(s, i - 1) = " ")}
        EndOf(i) == CHOOSE e \in i..Len(s) :
                        /\ \A j \in i..e : CharAt(s, j) # " "
                        /\ (e = Len(s) \/ CharAt(s, e + 1) = " ")
        Nth(k) == CHOOSE i \in starts : Cardinality({j \in starts : j < i}) = k - 1
    IN  [k \in 1..Cardinality(starts) |-> SubSeq(s, Nth(k), EndOf(Nth(k)))]

\* s.strip()
strip(s) ==
    LET inked == {i \in 1..Len(s) : CharAt(s, i) # " "}
    IN  IF inked = {} THEN ""
        ELSE SubSeq(s, CHOOSE i \in inked : \A j \in inked : i <= j,
                       CHOOSE i \in inked : \A j \in inked : j <= i)

(***************************************************************************)
(* Future objects and the scenario lists an engine is built from.          *)
(***************************************************************************)
\* Future(name, keywords, core_logic, probability=1.0, description='')
Future(name, keywords, core_logic, probability, description) ==
    [name |-> name, keywords |-> keywords, core_logic |-> core_logic,
     probability |-> probability, description |-> description]

\* ForesightEngine.DEFAULT_FUTURES, abridged to its first two scenarios, with
\* the first two keywords of one and the first keyword of the other (the full
\* list has five scenarios of ten keywords); every object has probability 1.0.
DEFAULT_FUTURES ==
    << Future("Tech-Acceleration", <<"ai", "quantum">>,
              "technology accelerates beyond human control", One,
              "Rapid technological acceleration, AI dominance, post-human transition"),
       Future("Green-Symbiosis", <<"climate">>,
              "humanity cooperates with natural systems", One,
              "Ecological transition, distributed energy, human-nature balance") >>

\* The values of the constructor's `futures` parameter that are explored:
\* None / the empty list, a store-made list whose second scenario lost all
\* its keywords (create_future keeps only the non-blank ones), and a list
\* built by a caller with probabilities of its own choosing.
StoreFutures ==
    << Future("Open-Web", <<"open">>, "data flows freely", One, ""),
       Future("Silence", <<>>, "nothing moves", One, "") >>

CallerFutures ==
    << Future("Boom", <<"growth">>, "technology lifts markets", Frac(3, 1), "up"),
       Future("Bust", <<"debt">>, "markets contract", Frac(-1, 1), "down") >>

FutureLists == {<<>>, StoreFutures, CallerFutures}

\* The argument text: it holds keywords of scenarios ("quantum", "growth",
\* "debt") and negates a core_logic word ("not technology").
ArgTexts == {"Quantum growth, not technology, more debt"}

\* An optional str: <<>> is None, <<t>> is the string t.
None == <<>>
Some(t) == <<t>>
\* Python truthiness of an optional str: None and '' are falsy.
Truthy(a) == a # None /\ a[1] # ""

StepArguments == {None, Some("")} \cup {Some(t) : t \in ArgTexts}

\* field_context values: one hot topic, which overlaps the keyword "debt" of
\* the caller's list only.
TopicLists == {<<"Debt">>}

(***************************************************************************)
(* The engine's functions.                                                 *)
(***************************************************************************)
\* a variant of calculate_resonance without the cap at 3.5
resonance_uncapped(future, argument, field_context) ==
    LET arg_lower == lower(argument)
        field_lower == [j \in 1..Len(field_context) |-> lower(field_context[j])]
        kws == [i \in 1..Len(future.keywords) |-> lower(future.keywords[i])]
        keyword_hits == Cardinality({i \in 1..Len(kws) : Contains(arg_lower, kws[i])})
        base_resonance == Frac(4 + keyword_hits, 4)            \* 1.0 + hits * 0.25
        field_hits ==
            Cardinality({<<i, j>> \in (1..Len(kws)) \X (1..Len(field_lower)) :
                            \/ Contains(field_lower[j], kws[i])
                            \/ Contains(kws[i], field_lower[j])})
        field_boost == Frac(20 + 3 * field_hits, 20)          \* 1.0 + hits * 0.15
        core_words == split(lower(future.core_logic))
        negation_patterns ==
            [i \in 1..Len(core_words) |-> "not " \o core_words[i]] \o
            [i \in 1..Len(core_words) |-> "no " \o core_words[i]] \o
            [i \in 1..Len(core_words) |-> "against " \o core_words[i]]
    IN  IF \E i \in 1..Len(negation_patterns) : Contains(arg_lower, negation_patterns[i])
        THEN Frac(1, 5)                                        \* 0.2
        ELSE RMul(base_resonance, field_boost)

\* a variant of calculate_resonance whose suppression multiplier is 0
resonance_suppressed_to_zero(future, argument, field_context) ==
    LET arg_lower == lower(argument)
        field_lower == [j \in 1..Len(field_context) |-> lower(field_context[j])]
        kws == [i \in 1..Len(future.keywords) |-> lower(future.keywords[i])]
        keyword_hits == Cardinality({i \in 1..Len(kws) : Contains(arg_lower, kws[i])})
        base_resonance == Frac(4 + keyword_hits, 4)            \* 1.0 + hits * 0.25
        field_hits ==
            Cardinality({<<i, j>> \in (1..Len(kws)) \X (1..Len(field_lower)) :
                            \/ Contains(field_lower[j], kws[i])
                            \/ Contains(kws[i], field_lower[j])})
        field_boost == Frac(20 + 3 * field_hits, 20)          \* 1.0 + hits * 0.15
        core_words == split(lower(future.core_logic))
        negation_patterns ==
            [i \in 1..Len(core_words) |-> "not " \o core_words[i]] \o
            [i \in 1..Len(core_words) |-> "no " \o core_words[i]] \o
            [i \in 1..Len(core_words) |-> "against " \o core_words[i]]
    IN  IF \E i \in 1..Len(negation_patterns) : Contains(arg_lower, negation_patterns[i])
        THEN Zero
        ELSE RMin(RMul(base_resonance, field_boost), Frac(7, 2))   \* cap at 3.5

\* ForesightEngine.calculate_resonance
calculate_resonance(future, argument, field_context) ==
    LET arg_lower == lower(argument)
        field_lower == [j \in 1..Len(field_context) |-> lower(field_context[j])]
        kws == [i \in 1..Len(future.keywords) |-> lower(future.keywords[i])]
        keyword_hits == Cardinality({i \in 1..Len(kws) : Contains(arg_lower, kws[i])})
        base_resonance == Frac(4 + keyword_hits, 4)            \* 1.0 + hits * 0.25
        field_hits ==
            Cardinality({<<i, j>> \in (1..Len(kws)) \X (1..Len(field_lower)) :
                            \/ Contains(field_lower[j], kws[i])
                            \/ Contains(kws[i], field_lower[j])})
        field_boost == Frac(20 + 3 * field_hits, 20)          \* 1.0 + hits * 0.15
        core_words == split(lower(future.core_logic))
        negation_patterns ==
            [i \in 1..Len(core_words) |-> "not " \o core_words[i]] \o
            [i \in 1..Len(core_words) |-> "no " \o core_words[i]] \o
            [i \in 1..Len(core_words) |-> "against " \o core_words[i]]
    IN  IF \E i \in 1..Len(negation_patterns) : Contains(arg_lower, negation_patterns[i])
        THEN Frac(1, 5)                                        \* 0.2
        ELSE RMin(RMul(base_resonance, field_boost), Frac(7, 2))   \* cap at 3.5

\* a variant of _normalize that leaves the probabilities as they are
unnormalized(ps) == ps

\* ForesightEngine._normalize on the sequence of probabilities
_normalize(ps) ==
    LET total == RSum(ps)
        n == Len(ps)
    IN  IF RLeq(total, Zero)
        THEN [i \in 1..n |-> Frac(1, n)]
        ELSE [i \in 1..n |-> RDiv(ps[i], total)]

\* random.uniform(-noise, noise): the two ends of the interval
NoiseDraws == {-1, 1}
ExternalNoise == Frac(5, 100)
FeedbackNoise == Frac(8, 100)

\* The four templates of generate_feedback (its em dash is written "--").
templates(realized, kw) ==
    << "The trend toward " \o realized.core_logic \o " is accelerating -- focus on " \o kw,
       "Evidence of " \o kw \o " confirms the " \o realized.name \o " trajectory",
       "Prioritize " \o kw \o " and related strategies for " \o realized.name,
       "The " \o realized.name \o " scenario is gaining momentum through " \o kw >>

\* calculate_resonance reads a future's keywords and core_logic, an argument
\* and the topics, never a probability: its values over the futures and the
\* texts of this model are tabulated once.
Scenario(f) == [f EXCEPT !.probability = One]
AllFutures ==
    {Scenario(DEFAULT_FUTURES[i]) : i \in 1..Len(DEFAULT_FUTURES)} \cup
    UNION {{Scenario(list[i]) : i \in 1..Len(list)} : list \in FutureLists}
FeedbackTexts ==
    UNION {{templates(f, f.keywords[k])[t] : k \in 1..Len(f.keywords), t \in 1..4} :
              f \in AllFutures}
ResonanceTable ==
    [q \in {<<f, text, fc>> : f \in AllFutures,
                              text \in ArgTexts \cup FeedbackTexts,
                              fc \in TopicLists} |->
        calculate_resonance(q[1], q[2], q[3])]

\* for f in self.futures: r = self.calculate_resonance(f, argument, field_context)
resonances(fs, argument, field_context) ==
    [i \in 1..Len(fs) |-> ResonanceTable[<<Scenario(fs[i]), argument, field_context>>]]

\* for f in self.futures: f.probability *= r * n, and then self._normalize();
\* rs[i] the resonance of the i-th future, draw[i] the uniform draw made for it
Reshape(ps, rs, noise, draw) ==
    _normalize([i \in 1..Len(ps) |->
        LET n == RAdd(One, RMul(Frac(draw[i], 1), noise))   \* 1.0 + uniform(-noise, noise)
        IN  RMul(ps[i], RMul(rs[i], n))])

\* ForesightEngine.apply_argument: fs the engine's Future objects in order;
\* the new probabilities
apply_argument(fs, argument, field_context, noise, draw) ==
    Reshape([i \in 1..Len(fs) |-> fs[i].probability],
            resonances(fs, argument, field_context), noise, draw)

\* one uniform draw per future
NoiseVectors(n) == [1..n -> NoiseDraws]

\* itertools.accumulate(weights)
accumulate(ws) == [i \in 1..Len(ws) |-> RSum(SubSeq(ws, 1, i))]

\* bisect.bisect_left in place of bisect_right: positions whose cumulative
\* weight equals x are not skipped
RECURSIVE bisect_left(_, _, _, _)
bisect_left(a, x, lo, hi) ==
    IF lo < hi
    THEN LET mid == (lo + hi) \div 2
         IN  IF RLess(a[mid + 1], x) THEN bisect_left(a, x, mid + 1, hi)
                                     ELSE bisect_left(a, x, lo, mid)
    ELSE lo

\* bisect.bisect_right(a, x, lo, hi) with 0-based positions, as random.choices uses it
RECURSIVE bisect(_, _, _, _)
bisect(a, x, lo, hi) ==
    IF lo < hi
    THEN LET mid == (lo + hi) \div 2
         IN  IF RLess(x, a[mid + 1]) THEN bisect(a, x, lo, mid)
                                     ELSE bisect(a, x, mid + 1, hi)
    ELSE lo

\* random.choices(population, weights, k=1) raises ValueError when the
\* weights' total is not greater than zero (CPython 3.9 and later).
collapse_raises(ps) == RLeq(RSum(ps), Zero)

\* ForesightEngine.collapse: the position (1-based) in self.futures that
\* random.choices returns for the weights ps when random() returns u
collapse(ps, u) ==
    LET cum_weights == accumulate(ps)
        total == cum_weights[Len(ps)]
    IN  bisect(cum_weights, RMul(u, total), 0, Len(ps) - 1) + 1

\* The values of random() in [0, 1) that are explored for weights ps of a
\* positive total: one for every way random() * total can compare with the
\* cumulative weights (each threshold below the total, and a point inside
\* each gap between two thresholds).
CollapseDraws(ps) ==
    LET cum_weights == accumulate(ps)
        total == cum_weights[Len(ps)]
        marks == {Zero, total} \cup
                 {cum_weights[i] : i \in {j \in 1..Len(ps) :
                      RLess(Zero, cum_weights[j]) /\ RLess(cum_weights[j], total)}}
        gaps == {ab \in marks \X marks :
                    /\ RLess(ab[1], ab[2])
                    /\ ~\E c \in marks : RLess(ab[1], c) /\ RLess(c, ab[2])}
        xs == {m \in marks : RLess(m, total)} \cup
              {RMul(RAdd(ab[1], ab[2]), Frac(1, 2)) : ab \in gaps}
    IN  {RDiv(x, total) : x \in xs}

\* random.choice(seq) raises IndexError on an empty sequence
choice_raises(seq) == Len(seq) = 0

\* ForesightEngine.generate_feedback when random.choice picks the k-th
\* keyword and the t-th template (the value of random.random() is not used)
generate_feedback(realized, k, t) == templates(realized, realized.keywords[k])[t]

\* {f.name: round(f.probability, 4) for f in self.futures}: a later object
\* of the same name overwrites an earlier one
ProbDict(fs) ==
    [nm \in {fs[i].name : i \in 1..Len(fs)} |->
        LET last == CHOOSE i \in 1..Len(fs) :
                        fs[i].name = nm /\ \A j \in 1..Len(fs) : fs[j].name = nm => j <= i
        IN  round(fs[last].probability, 4)]

(***************************************************************************)
(* The heap of Future objects.                                             *)
(***************************************************************************)
\* the objects a list of ids refers to
Deref(h, refs) == [i \in 1..Len(refs) |-> h[refs[i]]]

\* for i, f in enumerate(refs): f.probability = ps[i]
Store(h, refs, ps) ==
    [id \in DOMAIN h |->
        IF \E i \in 1..Len(refs) : refs[i] = id
        THEN [h[id] EXCEPT !.probability =
                 ps[CHOOSE i \in 1..Len(refs) :
                        refs[i] = id /\ \A j \in 1..Len(refs) : refs[j] = id => j <= i]]
        ELSE h[id]]

Probabilities(fs) == [i \in 1..Len(fs) |-> fs[i].probability]
WithProbabilities(fs, ps) == [i \in 1..Len(fs) |-> [fs[i] EXCEPT !.probability = ps[i]]]

\* the ids of DEFAULT_FUTURES, and of the objects of a caller's list
DefaultRefs == [i \in 1..Len(DEFAULT_FUTURES) |-> i]
CallerRefs(list) == [i \in 1..Len(list) |-> Len(DEFAULT_FUTURES) + i]

\* a variant of the constructor's list comprehension that keeps the objects
\* of the list given instead of copying them
SameRefs(src, base) == src

\* [Future(**vars(f)) for f in ...]: a new object for every object of the list
CopyRefs(src, base) == [i \in 1..Len(src) |-> base + i]

\* ForesightEngine.__init__(futures): the heap, the list given and self.futures
Construct(list) ==
    LET base == Len(DEFAULT_FUTURES) + Len(list)
        h0 == [id \in 1..base |->
                  IF id <= Len(DEFAULT_FUTURES) THEN DEFAULT_FUTURES[id]
                  ELSE list[id - Len(DEFAULT_FUTURES)]]
        src == IF list = <<>> THEN DefaultRefs ELSE CallerRefs(list)   \* futures or DEFAULT_FUTURES
        refs == CopyRefs(src, base)
        h1 == [id \in 1..(base + Len(src)) |->
                  IF id <= base THEN h0[id] ELSE h0[src[id - base]]]
    IN  [heap |-> Store(h1, refs, _normalize(Probabilities(Deref(h1, refs)))),
         source |-> src,
         futures |-> refs]

(***************************************************************************)
(* Calls and their outcomes.                                               *)
(***************************************************************************)
Idle == [op |-> "idle"]
Called(op) == [op |-> op, status |-> "called", exc |-> "", value |-> <<>>]
Returned(op, value) == [op |-> op, status |-> "returned", exc |-> "", value |-> value]
Raised(op, exc) == [op |-> op, status |-> "raised", exc |-> exc, value |-> <<>>]

\* every probability of the engine has a denominator of at most MaxDen
Fits == \A i \in 1..Len(futures) : heap[futures[i]].probability.den <= MaxDen

\* the positions random.choices can return for the weights ps
Realizable(ps) == {collapse(ps, u) : u \in CollapseDraws(ps)}

Init ==
    \E list \in FutureLists :
        LET made == Construct(list)
        IN  /\ heap = made.heap
            /\ source = made.source
            /\ futures = made.futures
            /\ history = <<>>
            /\ iteration = 0
            /\ pc = Idle
            /\ ret = Returned("__init__", <<>>)
            /\ topics \in TopicLists
            /\ applied = 0
            /\ last_produced = 0
            /\ rng = 0
            /\ seed = None

\* a variant of step's first part that takes the rounded dict before the
\* external argument is applied
recorded_before_argument(fs0, argument, field_context) ==
    IF Truthy(argument)
    THEN LET rs == resonances(fs0, argument[1], field_context)
         IN  {[ps |-> Reshape(Probabilities(fs0), rs, ExternalNoise, d1),
               probs |-> ProbDict(fs0)] : d1 \in NoiseVectors(Len(fs0))}
    ELSE {[ps |-> Probabilities(fs0), probs |-> ProbDict(fs0)]}

\* The ways step's first part can go, up to the collapse: for each vector d1
\* of noise draws the probabilities after the external argument (if any)
\* and the rounded dict taken from them.
BeforeCollapse(fs0, argument, field_context) ==
    IF Truthy(argument)
    THEN LET rs == resonances(fs0, argument[1], field_context)
         IN  {LET ps1 == Reshape(Probabilities(fs0), rs, ExternalNoise, d1)
              IN  [ps |-> ps1, probs |-> ProbDict(WithProbabilities(fs0, ps1))] :
                  d1 \in NoiseVectors(Len(fs0))}
    ELSE {[ps |-> Probabilities(fs0), probs |-> ProbDict(fs0)]}

\* The ways step's second part can go once `realized` is drawn: for each
\* keyword, template and vector d2 of noise draws the feedback text, the
\* probabilities after it is applied and the rounded dict taken from them.
AfterCollapse(fs1, realized, field_context) ==
    UNION {LET feedback == generate_feedback(realized, k, t)
               rs == resonances(fs1, feedback, field_context)
           IN  {LET ps2 == Reshape(Probabilities(fs1), rs, FeedbackNoise, d2)
                IN  [feedback |-> feedback, ps |-> ps2,
                     probs |-> ProbDict(WithProbabilities(fs1, ps2))] :
                    d2 \in NoiseVectors(Len(fs1))} :
           k \in 1..Len(realized.keywords), t \in 1..4}

\* ForesightEngine.step(argument, field_context): the whole method, with every
\* random draw it makes; the snapshot's timestamp (the wall clock) is left out.
step(argument, field_context) ==
    /\ iteration' = iteration + 1                                   \* self.iteration += 1
    /\ \E fs0 \in {Deref(heap, futures)} :
       \E b \in BeforeCollapse(fs0, argument, field_context) :     \* apply_argument(argument, ...)
       \E fs1 \in {WithProbabilities(fs0, b.ps)} :
           IF collapse_raises(b.ps)
           THEN /\ heap' = Store(heap, futures, b.ps)
                /\ history' = history
                /\ last_produced' = last_produced
                /\ ret' = Raised("step", "ValueError")
           ELSE \E c \in Realizable(b.ps) :                         \* realized = self.collapse()
                IF choice_raises(fs1[c].keywords)
                THEN /\ heap' = Store(heap, futures, b.ps)
                     /\ history' = history
                     /\ last_produced' = last_produced
                     /\ ret' = Raised("step", "IndexError")
                ELSE \E a \in AfterCollapse(fs1, fs1[c], field_context) :
                     \E snapshot \in
                         {[iteration |-> iteration + 1,
                           argument |-> IF Truthy(argument) THEN argument[1]
                                        ELSE "(internal feedback only)",
                           probabilities_before |-> b.probs,
                           realized_future |-> fs1[c].name,
                           feedback_argument |-> a.feedback,
                           probabilities_after |-> a.probs,
                           field_context |-> field_context]} :
                         /\ heap' = Store(heap, futures, a.ps)
                         /\ history' = Append(history, snapshot)   \* self.history.append(snapshot)
                         /\ last_produced' = snapshot.iteration
                         /\ ret' = Returned("step", snapshot)      \* return snapshot

\* a caller calls engine.step(argument, field_context)
Step ==
    /\ pc = Idle
    /\ iteration < MaxIter
    /\ Fits
    /\ \E argument \in StepArguments : step(argument, topics)
    /\ UNCHANGED <<source, futures, pc, topics, applied, rng, seed>>

\* a caller calls engine.apply_argument(argument, field_context) with the
\* default noise
ApplyArgument ==
    /\ pc = Idle
    /\ applied < MaxApply
    /\ Fits
    /\ \E argument \in ArgTexts, draw \in NoiseVectors(Len(futures)) :
           heap' = Store(heap, futures,
                         apply_argument(Deref(heap, futures), argument, topics,
                                        ExternalNoise, draw))
    /\ applied' = applied + 1
    /\ ret' = Returned("apply_argument", <<>>)
    /\ UNCHANGED <<source, futures, history, iteration, pc, topics, last_produced, rng, seed>>

\* A call binds when every keyword it passes names a parameter of the
\* function; otherwise Python raises TypeError before the body runs.
run_parameters == {"argument", "steps", "field_context"}
Binds(parameters, keywords) == keywords \subseteq parameters

\* the keyword arguments callers of run pass: the engine's own signature,
\* and the one the simulate endpoint uses
RunKeywords == {{"steps", "field_context"}, {"steps", "field_context", "temperature"}}

\* the attributes of a ForesightEngine instance; looking up any other name
\* raises AttributeError
EngineAttributes ==
    {"DEFAULT_FUTURES", "futures", "history", "iteration", "__init__", "_normalize",
     "calculate_resonance", "match_headlines", "apply_argument", "collapse",
     "generate_feedback", "step", "run", "reset", "get_state", "_calculate_entropy"}
HasAttr(name) == name \in EngineAttributes

\* the frame of a run call: its arguments, loop index i and results so far
Frame(argument, steps, field_context, caller) ==
    [op |-> "run", argument |-> argument, steps |-> steps,
     field_context |-> field_context, i |-> 0, results |-> <<>>, exc |-> "",
     caller |-> caller]

\* ForesightEngine.run(argument, steps, field_context) is called: the call
\* binds and results = [], or it raises TypeError
RunCall ==
    /\ pc = Idle
    /\ Fits
    /\ \E argument \in ArgTexts, steps \in 1..MaxSteps, keywords \in RunKeywords :
        /\ iteration + steps <= MaxIter
        /\ IF Binds(run_parameters, keywords)
           THEN /\ pc' = Frame(argument, steps, topics, "")
                /\ ret' = Called("run")
           ELSE /\ pc' = pc
                /\ ret' = Raised("run", "TypeError")
    /\ UNCHANGED <<heap, source, futures, history, iteration, topics, applied, last_produced, rng, seed>>

\* one pass of run's loop: results.append(self.step(arg, field_context))
RunStep ==
    /\ pc.op = "run"
    /\ pc.exc = ""
    /\ pc.i < pc.steps
    /\ Fits
    /\ step(IF pc.i = 0 THEN Some(pc.argument) ELSE None, pc.field_context)
    /\ pc' = IF ret'.status = "raised"
             THEN [pc EXCEPT !.exc = ret'.exc]
             ELSE [pc EXCEPT !.i = @ + 1, !.results = Append(@, ret'.value)]
    /\ UNCHANGED <<source, futures, topics, applied, rng, seed>>

\* sorted(self.futures, key=lambda x: x.probability, reverse=True): a stable
\* sort, so objects of equal probability keep the order of self.futures
RECURSIVE sorted(_)
sorted(fs) ==
    IF fs = <<>> THEN <<>>
    ELSE LET rest == sorted(SubSeq(fs, 1, Len(fs) - 1))
             x == fs[Len(fs)]
             k == Cardinality({i \in 1..Len(rest) :
                                  RLeq(x.probability, rest[i].probability)})
         IN  SubSeq(rest, 1, k) \o <<x>> \o SubSeq(rest, k + 1, Len(rest))

\* a variant of max that returns the last of the objects of greatest
\* probability
max_last(fs) ==
    fs[CHOOSE i \in 1..Len(fs) :
           \A j \in 1..Len(fs) :
               /\ j < i => RLeq(fs[j].probability, fs[i].probability)
               /\ j > i => RLess(fs[j].probability, fs[i].probability)]

\* max(self.futures, key=lambda x: x.probability): the first of the objects
\* of greatest probability
max(fs) ==
    fs[CHOOSE i \in 1..Len(fs) :
           \A j \in 1..Len(fs) :
               /\ j < i => RLess(fs[j].probability, fs[i].probability)
               /\ j > i => RLeq(fs[j].probability, fs[i].probability)]

\* ForesightEngine.get_state() without headlines; the entropy (a logarithm)
\* is left out
get_state(fs, it) ==
    [iteration |-> it,
     futures |-> [i \in 1..Len(fs) |->
                    LET f == sorted(fs)[i]
                    IN  [name |-> f.name,
                         probability |-> round(f.probability, 4),
                         probability_pct |-> round(RMul(f.probability, Frac(100, 1)), 1),
                         description |-> f.description,
                         core_logic |-> f.core_logic,
                         matched_headlines |-> <<>>]],
     dominant |-> max(fs).name]

\* an HTTP response of the application
Response(status, body) == [status |-> status, body |-> body]

\* run returns results, or the exception of a step leaves it; in the simulate
\* endpoint the results go into the response and an exception becomes a 500
RunReturn ==
    /\ pc.op = "run"
    /\ pc.exc # "" \/ pc.i = pc.steps
    /\ ret' = IF pc.caller = "simulate"
              THEN Returned("simulate",
                     IF pc.exc # "" THEN Response(500, pc.exc)
                     ELSE Response(200,
                            [steps |-> pc.steps,
                             final_state |-> get_state(Deref(heap, futures), iteration),
                             history |-> pc.results]))
              ELSE IF pc.exc # "" THEN Raised("run", pc.exc)
                   ELSE Returned("run", pc.results)
    /\ pc' = Idle
    /\ UNCHANGED <<heap, source, futures, history, iteration, topics, applied, last_produced, rng, seed>>

\* a variant of reset without its call of _normalize
reset_unnormalized(n) == [i \in 1..n |-> One]

\* reset's loop and its _normalize: the probabilities of the n objects
reset(n) == _normalize([i \in 1..n |-> One])

\* ForesightEngine.reset()
Reset ==
    /\ pc = Idle
    /\ heap' = Store(heap, futures, reset(Len(futures)))
    /\ history' = <<>>
    /\ iteration' = 0
    /\ applied' = 0
    /\ ret' = Returned("reset", <<>>)
    /\ UNCHANGED <<source, futures, pc, topics, last_produced, rng, seed>>

\* the rows get_active_futures() returns from a configured store, as the
\* Future objects the endpoints build from them (probability is the dataclass
\* default 1.0); the store never returns an empty list
ActiveFutures == {StoreFutures}

\* the request texts of the endpoints
RequestTexts == ArgTexts \cup {" "}

\* POST /api/simulate: the whole handler up to its call of engine.run, whose
\* keyword temperature decides whether the call binds
Simulate ==
    /\ pc = Idle
    /\ Fits
    /\ \E text \in RequestTexts, steps \in 1..MaxSteps, rows \in ActiveFutures :
       \E argument \in {strip(text)} :
           IF argument = ""
           THEN /\ ret' = Returned("simulate", Response(400, "argument is required"))
                /\ UNCHANGED <<heap, source, futures, history, iteration, pc, applied,
                             last_produced, rng, seed>>
           ELSE \E made \in {Construct(rows)} :       \* ForesightEngine(futures=futures, seed=seed)
                /\ heap' = made.heap
                /\ source' = made.source
                /\ futures' = made.futures
                /\ history' = <<>>
                /\ iteration' = 0
                /\ applied' = 0
                /\ last_produced' = 0
                /\ IF Binds(run_parameters, {"steps", "field_context", "temperature"})
                   THEN /\ pc' = Frame(argument, steps, topics, "simulate")
                        /\ ret' = Called("run")
                   ELSE /\ pc' = Idle                 \* except Exception as e: ... 500
                        /\ ret' = Returned("simulate", Response(500, "TypeError"))
    /\ UNCHANGED <<topics, rng, seed>>

\* POST /api/battle: the whole handler; the engine has no attribute battle,
\* so engine.battle raises AttributeError, which the handler turns into a 500
Battle ==
    /\ pc = Idle
    /\ Fits
    /\ \E text_a \in RequestTexts, text_b \in RequestTexts, rows \in ActiveFutures :
           IF strip(text_a) = "" \/ strip(text_b) = ""
           THEN /\ ret' = Returned("battle",
                            Response(400, "argument_a and argument_b are required"))
                /\ UNCHANGED <<heap, source, futures, history, iteration, pc, applied,
                             last_produced, rng, seed>>
           ELSE \E made \in {Construct(rows)} :       \* ForesightEngine(futures=futures)
                /\ ~HasAttr("battle")
                /\ heap' = made.heap
                /\ source' = made.source
                /\ futures' = made.futures
                /\ history' = <<>>
                /\ iteration' = 0
                /\ applied' = 0
                /\ last_produced' = 0
                /\ pc' = Idle
                /\ ret' = Returned("battle", Response(500, "AttributeError"))
    /\ UNCHANGED <<topics, rng, seed>>

\* a caller calls engine.collapse(): the object drawn, or the ValueError of
\* random.choices
Collapse ==
    /\ pc = Idle
    /\ \E ps \in {Probabilities(Deref(heap, futures))} :
           IF collapse_raises(ps)
           THEN ret' = Raised("collapse", "ValueError")
           ELSE \E c \in Realizable(ps) : ret' = Returned("collapse", futures[c])
    /\ UNCHANGED <<heap, source, futures, history, iteration, pc, topics, applied,
                 last_produced, rng, seed>>

\* a caller calls engine.get_state()
GetState ==
    /\ pc = Idle
    /\ ret' = Returned("get_state", get_state(Deref(heap, futures), iteration))
    /\ UNCHANGED <<heap, source, futures, history, iteration, pc, topics, applied,
                 last_produced, rng, seed>>

Next ==
    \/ Step
    \/ ApplyArgument
    \/ RunCall
    \/ RunStep
    \/ RunReturn
    \/ Reset
    \/ Simulate
    \/ Battle

Spec == Init /\ [][Next]_vars

\* the engine's step, apply_argument and reset alone, as a caller that never
\* uses run or the endpoints sees them
NextSteps ==
    \/ Step
    \/ ApplyArgument
    \/ Reset

SpecSteps == Init /\ [][NextSteps]_vars

(***************************************************************************)
(* collapse and get_state over chosen probability vectors: an engine of    *)
(* three scenarios whose probabilities a caller has assigned directly      *)
(* (engine.futures[i].probability = x), ties, zeros and a negative value   *)
(* included.                                                               *)
(***************************************************************************)
ProbeFutures ==
    << Future("Alpha", <<"a">>, "first", One, ""),
       Future("Beta", <<"b">>, "second", One, ""),
       Future("Gamma", <<"c">>, "third", One, "") >>

ProbeValues == {Frac(-1, 2), Zero, Frac(1, 2), One}

InitProbe ==
    \E ps \in [1..Len(ProbeFutures) -> ProbeValues] :
        LET made == Construct(ProbeFutures)
        IN  /\ heap = Store(made.heap, made.futures, ps)
            /\ source = made.source
            /\ futures = made.futures
            /\ history = <<>>
            /\ iteration = 0
            /\ pc = Idle
            /\ ret = Returned("__init__", <<>>)
            /\ topics \in TopicLists
            /\ applied = 0
            /\ last_produced = 0
            /\ rng = 0
            /\ seed = None

NextProbe ==
    \/ Collapse
    \/ GetState

SpecProbe == InitProbe /\ [][NextProbe]_vars

(***************************************************************************)
(* match_headlines and calculate_resonance called on their own, over       *)
(* chosen headlines, arguments and topics.                                 *)
(***************************************************************************)
\* the characters of the headlines in the order of their code points
\* (space, upper case, lower case)
CodePointOrder == " ABCDEFGHIJKLMNOPQRSTUVWXYZabcdefghijklmnopqrstuvwxyz"
ord(c) == CHOOSE i \in 1..Len(CodePointOrder) : CharAt(CodePointOrder, i) = c

\* s < t for Python str: at the first position where they differ s has the
\* smaller code point, or s is a proper prefix of t
StrLess(s, t) ==
    \E i \in 1..Len(t) :
        /\ i - 1 <= Len(s)
        /\ SubSeq(s, 1, i - 1) = SubSeq(t, 1, i - 1)
        /\ \/ i = Len(s) + 1
           \/ i <= Len(s) /\ ord(CharAt(s, i)) < ord(CharAt(t, i))

\* at most MaxHeadlines headlines are passed
MaxHeadlines == 4

\* the headlines: four that hit the keyword "ai" once and one that hits "ai"
\* and "quantum"
Headlines == {"ai a", "AI b", "ai c", "ai d", "Quantum AI"}
HeadlineLists == UNION {[1..n -> Headlines] : n \in 0..MaxHeadlines}

\* the pairs s < t of headlines, compared once
HeadlineLess ==
    {q \in {<<s, t>> : s \in Headlines, t \in Headlines} : StrLess(q[1], q[2])}

\* (hits, h) < (hits', h') for Python tuples
TupleLess(a, b) == a[1] < b[1] \/ (a[1] = b[1] /\ <<a[2], b[2]>> \in HeadlineLess)

\* matched.sort(reverse=True): descending by the tuples themselves, equal
\* tuples staying in the order they had
RECURSIVE sort_reverse(_)
sort_reverse(matched) ==
    IF matched = <<>> THEN <<>>
    ELSE LET rest == sort_reverse(SubSeq(matched, 1, Len(matched) - 1))
             x == matched[Len(matched)]
             k == Cardinality({i \in 1..Len(rest) : ~TupleLess(rest[i], x)})
         IN  SubSeq(rest, 1, k) \o <<x>> \o SubSeq(rest, k + 1, Len(rest))

\* sum(1 for kw in future.keywords if kw.lower() in h_lower)
keyword_hits(keywords, h) ==
    Cardinality({i \in 1..Len(keywords) : Contains(lower(h), lower(keywords[i]))})

\* the hits of every headline for every keyword list, counted once
HitsTable ==
    [q \in {<<f.keywords, h>> : f \in AllFutures, h \in Headlines} |->
        keyword_hits(q[1], q[2])]
hits(future, h) == HitsTable[<<future.keywords, h>>]

\* ForesightEngine.match_headlines(future, headlines)
match_headlines(future, headlines) ==
    IF headlines = <<>> THEN <<>>
    ELSE LET scored == [i \in 1..Len(headlines) |-> <<hits(future, headlines[i]), headlines[i]>>]
             matched == SelectSeq(scored, LAMBDA t : t[1] >= 1)
             ranked == sort_reverse(matched)
             top == IF Len(ranked) < 3 THEN Len(ranked) ELSE 3       \* matched[:3]
         IN  [k \in 1..top |-> ranked[k][2]]

\* a call of a query method with its arguments, and its return
CalledWith(op, args) ==
    [op |-> op, status |-> "called", exc |-> "", value |-> <<>>, args |-> args]
ReturnedFrom(op, args, value) ==
    [op |-> op, status |-> "returned", exc |-> "", value |-> value, args |-> args]

\* the arguments of calculate_resonance: texts that hold keywords in either
\* case, negation phrases ("not", "no", "against", one inside "cannot") and
\* none of them
ResonanceTexts ==
    ArgTexts \cup
    {"", "AI and Quantum", "Not Technology", "no control, more ai",
     "against markets", "cannot contract", "nothing accelerates"}

\* the field contexts of calculate_resonance: none, one topic, and five
\* topics that overlap the keywords "ai" and "quantum" nine times
ResonanceTopics ==
    TopicLists \cup
    {<<>>, <<"AI">>, <<"ai quantum", "Quantum AI", "AI", "a", "">>}

\* the calls of the two query methods on an engine's scenarios
QueryCalls(scenarios) ==
    {CalledWith("match_headlines", [future |-> f, headlines |-> hs]) :
        f \in scenarios, hs \in HeadlineLists} \cup
    {CalledWith("calculate_resonance",
                [future |-> f, argument |-> a, field_context |-> fc]) :
        f \in scenarios, a \in ResonanceTexts, fc \in ResonanceTopics}

\* an engine after construction and a caller about to query it
InitFunctions ==
    \E list \in FutureLists :
        LET made == Construct(list)
        IN  /\ heap = made.heap
            /\ source = made.source
            /\ futures = made.futures
            /\ history = <<>>
            /\ iteration = 0
            /\ pc = Idle
            /\ ret \in QueryCalls({made.heap[made.futures[i]] : i \in 1..Len(made.futures)})
            /\ topics \in TopicLists
            /\ applied = 0
            /\ last_produced = 0
            /\ rng = 0
            /\ seed = None

\* engine.match_headlines(future, headlines)
MatchHeadlines ==
    /\ pc = Idle
    /\ ret.op = "match_headlines" /\ ret.status = "called"
    /\ ret' = ReturnedFrom(ret.op, ret.args,
                           match_headlines(ret.args.future, ret.args.headlines))
    /\ UNCHANGED <<heap, source, futures, history, iteration, pc, topics, applied,
                 last_produced, rng, seed>>

\* engine.calculate_resonance(future, argument, field_context)
CalculateResonance ==
    /\ pc = Idle
    /\ ret.op = "calculate_resonance" /\ ret.status = "called"
    /\ ret' = ReturnedFrom(ret.op, ret.args,
                           calculate_resonance(ret.args.future, ret.args.argument,
                                               ret.args.field_context))
    /\ UNCHANGED <<heap, source, futures, history, iteration, pc, topics, applied,
                 last_produced, rng, seed>>

NextFunctions ==
    \/ MatchHeadlines
    \/ CalculateResonance

SpecFunctions == InitFunctions /\ [][NextFunctions]_vars

(***************************************************************************)
(* Seeded engines.  ForesightEngine(seed=s) calls random.seed(s), and every  *)
(* draw of every engine is made from the generator of the module `random`.  *)
(* Its Mersenne Twister is replaced by a linear congruential generator of   *)
(* period 8: one deterministic stream, held in module-level state, that     *)
(* random.seed resets and every draw advances.                              *)
(***************************************************************************)
\* random.seed(s): the generator's state
seed_state(s) == s % 8

\* the generator's state after k draws from the state x
RECURSIVE advance(_, _)
advance(x, k) == IF k = 0 THEN x ELSE advance((5 * x + 3) % 8, k - 1)

\* random.random() at the k-th draw from the state x: 0 or 1/2
random(x, k) == Frac(advance(x, k) \div 4, 2)

\* random.uniform(-noise, noise) == -noise + 2 * noise * random(), as a
\* multiple of noise: 2 * random() - 1
uniform(x, k) == 2 * (advance(x, k) \div 4) - 1

\* random.choice(seq) at the k-th draw: the position (1-based) int(random() * len(seq)) + 1
choice(x, k, len) == ((advance(x, k) \div 4) * len) \div 2 + 1

\* the seeds given to constructors
Seeds == {0, 1, 2, 3}

\* ForesightEngine.step(argument, field_context) of an engine whose futures
\* all have keywords and positive probabilities, drawing from the generator
\* in the state x: the draws in the order the method makes them
seeded_step(fs0, x, argument, field_context) ==
    LET n == Len(fs0)
        k1 == IF Truthy(argument) THEN n ELSE 0
        ps1 == IF Truthy(argument)                         \* apply_argument(argument, ..., 0.05)
               THEN Reshape(Probabilities(fs0), resonances(fs0, argument[1], field_context),
                            ExternalNoise, [i \in 1..n |-> uniform(x, i)])
               ELSE Probabilities(fs0)
        fs1 == WithProbabilities(fs0, ps1)
        realized == fs1[collapse(ps1, random(x, k1 + 1))]  \* random.choices
        kw == choice(x, k1 + 2, Len(realized.keywords))    \* random.choice(realized.keywords)
                                                           \* r = random.random(): draw k1 + 3
        t == choice(x, k1 + 4, 4)                          \* random.choice(templates)
        feedback == generate_feedback(realized, kw, t)
        ps2 == Reshape(ps1, resonances(fs1, feedback, field_context),   \* apply_argument(feedback, ..., 0.08)
                       FeedbackNoise, [i \in 1..n |-> uniform(x, k1 + 4 + i)])
    IN  [ps |-> ps2,
         rng |-> advance(x, k1 + 4 + n),
         probabilities_before |-> ProbDict(fs1),
         realized_future |-> realized.name,
         feedback_argument |-> feedback,
         probabilities_after |-> ProbDict(WithProbabilities(fs1, ps2))]

\* engine = ForesightEngine(seed=s): the default scenarios, the generator seeded
InitSeeded ==
    \E s \in Seeds :
        LET made == Construct(<<>>)
        IN  /\ heap = made.heap
            /\ source = made.source
            /\ futures = made.futures
            /\ history = <<>>
            /\ iteration = 0
            /\ pc = Idle
            /\ ret = Returned("__init__", <<>>)
            /\ topics \in TopicLists
            /\ applied = 0
            /\ last_produced = 0
            /\ rng = seed_state(s)                          \* random.seed(seed)
            /\ seed = Some(s)

\* a caller calls engine.step(argument, field_context) on the seeded engine
SeededStep ==
    /\ pc = Idle
    /\ iteration < MaxIter
    /\ Fits
    /\ \E argument \in StepArguments :
       \E r \in {seeded_step(Deref(heap, futures), rng, argument, topics)} :
       \E snapshot \in
           {[iteration |-> iteration + 1,
             argument |-> IF Truthy(argument) THEN argument[1]
                          ELSE "(internal feedback only)",
             probabilities_before |-> r.probabilities_before,
             realized_future |-> r.realized_future,
             feedback_argument |-> r.feedback_argument,
             probabilities_after |-> r.probabilities_after,
             field_context |-> topics]} :
           /\ iteration' = iteration + 1
           /\ heap' = Store(heap, futures, r.ps)
           /\ history' = Append(history, snapshot)
           /\ last_produced' = snapshot.iteration
           /\ ret' = Returned("step", snapshot)
           /\ rng' = r.rng
    /\ UNCHANGED <<source, futures, pc, topics, applied, seed>>

\* another engine of the process, built from the default scenarios, makes a
\* step without an external argument: it draws for its collapse, for its
\* feedback (three draws) and once per scenario for the noise
OtherEngineStep ==
    /\ pc = Idle
    /\ rng' = advance(rng, 4 + Len(DEFAULT_FUTURES))
    /\ ret' = Returned("other.step", <<>>)
    /\ UNCHANGED <<heap, source, futures, history, iteration, pc, topics, applied,
                   last_produced, seed>>

\* another engine is constructed with a seed: ForesightEngine(seed=s)
OtherEngineInit ==
    /\ pc = Idle
    /\ \E s \in Seeds : rng' = seed_state(s)
    /\ ret' = Returned("other.__init__", <<>>)
    /\ UNCHANGED <<heap, source, futures, history, iteration, pc, topics, applied,
                   last_produced, seed>>

NextSeeded ==
    \/ SeededStep
    \/ OtherEngineStep
    \/ OtherEngineInit

SpecSeeded == InitSeeded /\ [][NextSeeded]_vars

(***************************************************************************)
(* Properties.                                                             *)
(***************************************************************************)
\* the engine's probabilities, in the order of self.futures
probabilities == Probabilities(Deref(heap, futures))

\* C1: in every state reached by construction followed by any sequence of
\* apply_argument, step, run and reset calls, the probabilities of the
\* engine's scenarios sum to exactly 1.
C1_ProbabilitiesSumToOne == RSum(probabilities) = One

\* a state after a direct apply_argument and a step, with probabilities that
\* are no longer uniform
C1_Witness ==
    /\ applied = 1
    /\ history # <<>>
    /\ \E i \in 1..Len(futures) : probabilities[i] # Frac(1, Len(futures))

\* C2: every call of step (the only operation that increases the iteration
\* counter) returns a snapshot, appends exactly that snapshot to the history,
\* increases the counter by exactly 1, and the snapshot's iteration is the
\* new counter value.
C2_StepAppendsOneSnapshot ==
    [][iteration' > iteration =>
          /\ iteration' = iteration + 1
          /\ ret'.op = "step"
          /\ ret'.status = "returned"
          /\ history' = Append(history, ret'.value)
          /\ ret'.value.iteration = iteration']_vars

\* C3: a call run(argument, steps=n) with a non-empty argument returns n
\* snapshots, the first recording the argument and every later one the
\* feedback-only sentinel.
C3_RunReturnsAllSnapshots ==
    [][(pc.op = "run" /\ pc.caller = "" /\ pc.argument # "" /\ pc' = Idle) =>
          /\ ret'.status = "returned"
          /\ Len(ret'.value) = pc.steps
          /\ ret'.value[1].argument = pc.argument
          /\ \A k \in 2..pc.steps :
                 ret'.value[k].argument = "(internal feedback only)"]_vars

\* C4: reset leaves each of the N scenarios at probability 1/N, the history
\* empty and the iteration counter at 0, and changes neither the list of
\* scenarios nor any other field of a scenario.
C4_ResetRestoresUniform ==
    [][ret'.op = "reset" =>
          /\ \A i \in 1..Len(futures') :
                 heap'[futures'[i]].probability = Frac(1, Len(futures'))
          /\ history' = <<>>
          /\ iteration' = 0
          /\ futures' = futures
          /\ \A i \in 1..Len(futures) :
                 [heap'[futures[i]] EXCEPT !.probability = One] =
                 [heap[futures[i]] EXCEPT !.probability = One]]_vars

\* reset has returned on an engine that was built from the caller's list of
\* unequal probabilities (3 and -1)
C4_Witness ==
    /\ ret.op = "reset"
    /\ heap[source[1]].probability = Frac(3, 1)
    /\ \A i \in 1..Len(futures) : probabilities[i] = Frac(1, Len(futures))
    /\ history = <<>>
    /\ iteration = 0

\* C5: run accepts a temperature: a call of run that passes temperature does
\* not raise TypeError, and the simulate endpoint, which passes it, answers a
\* request that has an argument with status 200 and `steps` snapshots.
C5_RunAcceptsTemperature ==
    /\ ~(ret.op = "run" /\ ret.status = "raised" /\ ret.exc = "TypeError")
    /\ (ret.op = "simulate" /\ ret.value.status # 400) =>
           /\ ret.value.status = 200
           /\ Len(ret.value.body.history) = ret.value.body.steps

\* C6: the engine exposes battle: the battle endpoint, which calls it, answers
\* a request that has both arguments with status 200.
C6_EngineExposesBattle ==
    (ret.op = "battle" /\ ret.value.status # 400) => ret.value.status = 200

\* C7: collapse does not fail when every weight is zero: it returns one of
\* the scenarios.
C7_CollapseNeverFails ==
    (ret.op = "collapse" /\ \A i \in 1..Len(futures) : probabilities[i] = Zero)
        => ret.status = "returned"

\* C8: when some scenario has positive probability, collapse does not return
\* a scenario of probability 0; with one scenario at 1 and the others at 0 it
\* returns that scenario.
C8_NoZeroWeightRealized ==
    (ret.op = "collapse" /\ ret.status = "returned") =>
        /\ (\E i \in 1..Len(futures) : RLess(Zero, probabilities[i]))
               => heap[ret.value].probability # Zero
        /\ \A i \in 1..Len(futures) :
               (/\ probabilities[i] = One
                /\ \A j \in 1..Len(futures) : j # i => probabilities[j] = Zero)
                   => ret.value = futures[i]

\* collapse has returned the middle scenario, of probability 1, the other
\* two having probability 0
C8_Witness ==
    /\ ret.op = "collapse"
    /\ ret.status = "returned"
    /\ probabilities = <<Zero, One, Zero>>
    /\ ret.value = futures[2]

\* the lists an engine of this model can have been given
GivenLists == (FutureLists \ {<<>>}) \cup ActiveFutures \cup {DEFAULT_FUTURES, ProbeFutures}

\* C9: the objects of the list passed to the constructor and the built-in
\* default scenarios keep every field they had, whatever is called on the
\* engine; the engine's own objects are other objects.
C9_SourcesNeverMutated ==
    /\ \A id \in 1..Len(DEFAULT_FUTURES) : heap[id] = DEFAULT_FUTURES[id]
    /\ Deref(heap, source) \in GivenLists
    /\ \A i \in 1..Len(futures), j \in 1..Len(source) : futures[i] # source[j]

\* an engine built from a caller's list has been stepped and reshaped by a
\* direct apply_argument, so that its probabilities differ from the list's
C9_Witness ==
    /\ source # DefaultRefs
    /\ applied = 1
    /\ history # <<>>
    /\ \E i \in 1..Len(futures) :
           heap[futures[i]].probability # heap[source[i]].probability

\* C10: in the result of get_state the entries are in non-increasing order of
\* probability and dominant is the name of the first entry, ties included.
C10_StateSortedDominantFirst ==
    ret.op = "get_state" =>
        /\ \A i \in 1..(Len(ret.value.futures) - 1) :
               RLeq(ret.value.futures[i + 1].probability,
                    ret.value.futures[i].probability)
        /\ ret.value.dominant = ret.value.futures[1].name

\* get_state has returned for probabilities whose greatest value is shared by
\* the second and third scenario
C10_Witness ==
    /\ ret.op = "get_state"
    /\ probabilities = <<Frac(1, 2), One, One>>
    /\ ret.value.dominant = "Beta"

\* C11: headline matching returns at most 3 headlines, each with at least one
\* keyword hit, ordered by hit count descending, headlines of equal hit count
\* in their input order (the first 3 of that ranking).
C11_HeadlineTiesInInputOrder ==
    (ret.op = "match_headlines" /\ ret.status = "returned") =>
        LET hs == ret.args.headlines
            hit(i) == hits(ret.args.future, hs[i])
            M == {i \in 1..Len(hs) : hit(i) >= 1}
            Before(j, i) == hit(j) > hit(i) \/ (hit(j) = hit(i) /\ j < i)
            Nth(k) == CHOOSE i \in M : Cardinality({j \in M : Before(j, i)}) = k - 1
            n == IF Cardinality(M) < 3 THEN Cardinality(M) ELSE 3
        IN  ret.value = [k \in 1..n |-> hs[Nth(k)]]

\* C12: for every scenario, argument and topic list, the resonance is exactly
\* 0.2 when the argument contains "not w", "no w" or "against w" for a word w
\* of the scenario's core_logic (texts compared in lower case, as the keywords
\* are), whatever the keyword and topic overlap; otherwise it is
\* min((1 + 0.25 * keyword_hits) * (1 + 0.15 * field_hits), 3.5), and it is
\* never below 0 and never above 3.5.
C12_Words(ret_args) == split(lower(ret_args.future.core_logic))
C12_Negated(ret_args) ==
    \E i \in 1..Len(C12_Words(ret_args)), neg \in {"not ", "no ", "against "} :
        Contains(lower(ret_args.argument), neg \o C12_Words(ret_args)[i])
C12_KeywordHits(ret_args) ==
    Cardinality({i \in 1..Len(ret_args.future.keywords) :
        Contains(lower(ret_args.argument), lower(ret_args.future.keywords[i]))})
C12_FieldHits(ret_args) ==
    Cardinality({q \in {<<i, j>> : i \in 1..Len(ret_args.future.keywords),
                                   j \in 1..Len(ret_args.field_context)} :
        \/ Contains(lower(ret_args.field_context[q[2]]), lower(ret_args.future.keywords[q[1]]))
        \/ Contains(lower(ret_args.future.keywords[q[1]]), lower(ret_args.field_context[q[2]]))})
C12_Product(ret_args) ==
    RMul(Frac(100 + 25 * C12_KeywordHits(ret_args), 100),
         Frac(100 + 15 * C12_FieldHits(ret_args), 100))
C12_ResonanceFormula ==
    (ret.op = "calculate_resonance" /\ ret.status = "returned") =>
        /\ C12_Negated(ret.args) => ret.value = Frac(2, 10)
        /\ ~C12_Negated(ret.args) =>
              /\ RLeq(C12_Product(ret.args), Frac(35, 10)) => ret.value = C12_Product(ret.args)
              /\ RLess(Frac(35, 10), C12_Product(ret.args)) => ret.value = Frac(35, 10)
        /\ RLeq(Zero, ret.value) /\ RLeq(ret.value, Frac(35, 10))
\* a contradicted argument that also hits a keyword, and a product above 3.5
C12_Witness ==
    /\ ret.op = "calculate_resonance" /\ ret.status = "returned"
    /\ C12_Negated(ret.args)
    /\ C12_KeywordHits(ret.args) >= 1
C12_WitnessCapped ==
    /\ ret.op = "calculate_resonance" /\ ret.status = "returned"
    /\ ~C12_Negated(ret.args)
    /\ RLess(Frac(35, 10), C12_Product(ret.args))

\* C13: over all snapshots an engine produces during its lifetime, across any
\* sequence of step, run and reset calls, the iteration indices start at 1 and
\* are strictly increasing in the order the snapshots were produced: every
\* snapshot a step produces has an index of at least 1 that is greater than
\* the index of the snapshot produced before it.
C13_IndicesIncreaseOverLifetime ==
    [][(ret'.op = "step" /\ ret'.status = "returned" /\ ret' # ret)
          => /\ ret'.value.iteration >= 1
             /\ ret'.value.iteration > last_produced]_vars

\* C14: a seeded run is reproducible and independent of other engines: the
\* realized scenarios and feedback texts in the engine's history are those an
\* engine constructed with the same seed and stepped with the same arguments
\* produces when it is alone in the process, whatever steps or seeded
\* constructions of other engines were interleaved between its steps.
RECURSIVE C14_Alone(_, _, _)
C14_Alone(fs, x, snapshots) ==
    IF snapshots = <<>> \/ \E i \in 1..Len(fs) : fs[i].probability.den > MaxDen
    THEN <<>>
    ELSE LET h == Head(snapshots)
             argument == IF h.argument = "(internal feedback only)" THEN None
                         ELSE Some(h.argument)
             r == seeded_step(fs, x, argument, h.field_context)
         IN  <<<<r.realized_future, r.feedback_argument>>>> \o
             C14_Alone(WithProbabilities(fs, r.ps), r.rng, Tail(snapshots))
C14_SeededRunIndependent ==
    seed # None =>
        [k \in 1..Len(history) |->
            <<history[k].realized_future, history[k].feedback_argument>>]
        = C14_Alone(LET made == Construct(<<>>) IN Deref(made.heap, made.futures),
                    seed_state(seed[1]), history)

\* C15: step and run degrade silently instead of raising on malformed
\* scenarios: for every non-empty scenario list, including one that holds a
\* scenario with an empty keyword list, every step (called directly or by
\* run) returns a snapshot without raising, and run raises no exception of a
\* step.
C15_StepNeverRaises ==
    /\ ret.op = "step" => /\ ret.status = "returned"
                          /\ ret.value.iteration = iteration
    /\ ret.op = "run" => ~(ret.status = "raised" /\ ret.exc \in {"IndexError", "ValueError"})

\* C16: within one step the events occur in a fixed order: the external
\* argument (if non-empty) is applied with noise 0.05, then
\* probabilities_before is recorded, then the collapse is drawn from exactly
\* those probabilities, then the feedback generated from the realized scenario
\* is applied with noise 0.08, then probabilities_after is recorded; the
\* feedback is applied in every step, also when no external argument was
\* supplied.  For every step that returns a snapshot there are noise draws
\* for which the snapshot and the engine's new probabilities are the results
\* of these events in this order.
C16_Explains(fs0, snap, after) ==
    \E rs1 \in {IF snap.argument # "(internal feedback only)"
                THEN resonances(fs0, snap.argument, snap.field_context)
                ELSE <<>>} :
    \E applied_first \in
        {IF rs1 # <<>>
         THEN {Reshape(Probabilities(fs0), rs1, Frac(5, 100), d1) :
                  d1 \in [1..Len(fs0) -> {-1, 1}]}
         ELSE {Probabilities(fs0)}} :
    \E ps1 \in applied_first :
    \E fs1 \in {WithProbabilities(fs0, ps1)} :
        /\ snap.probabilities_before = ProbDict(fs1)
        /\ \E c \in {i \in 1..Len(fs1) : fs1[i].name = snap.realized_future} :
               /\ \E k \in 1..Len(fs1[c].keywords), t \in 1..4 :
                      snap.feedback_argument = templates(fs1[c], fs1[c].keywords[k])[t]
               \* random.choices returns c for a value of random() in [0, 1):
               \* the middle of c's share of the weights ps1
               /\ \E cum \in {accumulate(ps1)} :
                  \E u \in {RDiv(RAdd(IF c = 1 THEN Zero ELSE cum[c - 1], cum[c]),
                                 RMul(Frac(2, 1), cum[Len(ps1)]))} :
                      /\ RLeq(Zero, u) /\ RLess(u, One)
                      /\ collapse(ps1, u) = c
        /\ \E rs2 \in {resonances(fs1, snap.feedback_argument, snap.field_context)} :
           \E d2 \in [1..Len(fs0) -> {-1, 1}] :
               /\ after = Reshape(ps1, rs2, Frac(8, 100), d2)
               /\ snap.probabilities_after = ProbDict(WithProbabilities(fs1, after))
C16_StepEventOrder ==
    [][(ret'.op = "step" /\ ret'.status = "returned" /\ iteration' = iteration + 1)
          => \E fs0 \in {Deref(heap, futures)}, snap \in {ret'.value},
                after \in {Probabilities(Deref(heap', futures'))} :
                 C16_Explains(fs0, snap, after)]_vars
\* a step with an external argument has returned, and both applications
\* changed the rounded probabilities
C16_Witness ==
    /\ ret.op = "step" /\ ret.status = "returned"
    /\ ret.value.argument # "(internal feedback only)"
    /\ ret.value.probabilities_before # ret.value.probabilities_after
    /\ \E nm \in DOMAIN ret.value.probabilities_before :
           ret.value.probabilities_before[nm] # Frac(1, 2)
\* a step without an external argument has returned after its feedback changed
\* the probabilities
C16_WitnessFeedbackOnly ==
    /\ ret.op = "step" /\ ret.status = "returned"
    /\ ret.value.argument = "(internal feedback only)"
    /\ ret.value.probabilities_before # ret.value.probabilities_after

\* C17: after every completed construction, step, run or reset, the iteration
\* counter equals the length of the history, the k-th snapshot in the history
\* has iteration k, and for every snapshot of a feedback-only step that
\* follows another step (with no direct apply_argument call in between) its
\* probabilities_before equals the preceding snapshot's probabilities_after.
C17_CounterMatchesHistory ==
    (pc = Idle /\ ret.status = "returned" /\ ret.op \in {"__init__", "step", "run", "reset"}) =>
        /\ iteration = Len(history)
        /\ \A k \in 1..Len(history) : history[k].iteration = k
        /\ applied = 0 =>
              \A k \in 2..Len(history) :
                  history[k].argument = "(internal feedback only)" =>
                      history[k].probabilities_before = history[k - 1].probabilities_after

\* C18: for an engine constructed from scenarios whose probabilities are all
\* positive, after any sequence of apply_argument, step, run and reset every
\* scenario's probability is strictly greater than 0 and at most 1, so the
\* weights of collapse are never all zero (random.choices does not raise) and
\* the total the next normalization divides by is positive, also when every
\* noise draw of the argument applied is the lowest possible (-0.08).
C18_PositiveSource ==
    \A i \in 1..Len(source) : RLess(Zero, heap[source[i]].probability)
C18_ProbabilitiesStayPositive ==
    C18_PositiveSource =>
        /\ \A i \in 1..Len(futures) :
               /\ RLess(Zero, heap[futures[i]].probability)
               /\ RLeq(heap[futures[i]].probability, One)
        /\ ~collapse_raises(probabilities)
        /\ \A text \in ArgTexts :
               RLess(Zero,
                     RSum([i \in 1..Len(futures) |->
                              RMul(heap[futures[i]].probability,
                                   RMul(resonances(Deref(heap, futures), text, topics)[i],
                                        Frac(92, 100)))]))
\* an engine of positive scenarios after a direct apply_argument call and two
\* steps, its probabilities no longer uniform
C18_Witness ==
    /\ C18_PositiveSource
    /\ applied >= 1
    /\ Len(history) >= 2
    /\ \E i \in 1..Len(futures) : heap[futures[i]].probability # Frac(1, Len(futures))
====
